---- MODULE Spec2Model ----
(***************************************************************************)
(* Model of the Categories component                                       *)
(* (graphql-fe/src/components/Categories.tsx).                             *)
(*                                                                         *)
(* The component keeps two pieces of React state (displayModal, entity)    *)
(* and reads four Apollo hooks: one useQuery (loading, error, data) and    *)
(* three useMutation hooks (errorAdding, errorDeleting, errorUpdating),    *)
(* each configured with refetchQueries: [{ query: GET_ALL }].              *)
(*                                                                         *)
(* An optional JavaScript value is a sequence of length at most one:       *)
(* <<>> is undefined, <<v>> is the value v.                                *)
(*                                                                         *)
(* The requests in flight are part of the state: a write is sent, handled  *)
(* by the server, and later settled in the component; a GET_ALL request is *)
(* sent, answered by the server with the records it holds at that moment,  *)
(* and later completed in the component.  Responses arrive in any order.   *)
(***************************************************************************)
EXTENDS Integers, Sequences, FiniteSets, TLC

\* ----- bounds of the model
MaxWrites == 2      \* write calls issued in one behaviour

\* the texts a user types into the description input (e.target.value)
Values == {"", "Veg"}
\* the tables the server may hold before the first Load: no record, or the
\* record with id 1 and description "Fruit"
InitialTables == {<<>>, <<<<"Fruit">>>>}

undefined == <<>>
Some(v) == <<v>>
IsDefined(o) == o # undefined

VARIABLES
    displayModal,   \* useState(false), line 60
    entity,         \* useState<Entity | undefined>(undefined), line 61
    loading,        \* useQuery(GET_ALL).loading
    error,          \* useQuery(GET_ALL).error?.message, optional
    data,           \* useQuery(GET_ALL).data?.allCategories.nodes, optional
    errorAdding,    \* useMutation(ADD_ENTITY) error message, optional
    errorDeleting,  \* useMutation(DELETE_ENTITY) error message, optional
    errorUpdating,  \* useMutation(UPDATE_ENTITY) error message, optional
    writes,         \* every mutation call issued so far, in issue order
    fetches,        \* the GET_ALL requests in flight, in issue order
    fetchFailed,    \* a GET_ALL issued by refetchQueries has failed
    server,         \* the remote table: server[i] is the description of
                    \* the record with id i, or undefined once deleted
    view,           \* what the last render returned
    opened          \* how the editor was last opened: by "new", by "edit"
                    \* (with the row that was clicked), or "none" so far

hooks == <<loading, error, data, errorAdding, errorDeleting, errorUpdating>>
remote == <<writes, fetches, fetchFailed, server>>
vars == <<displayModal, entity, hooks, remote, view, opened>>

\* ----- values

\* JavaScript truthiness of an optional string: undefined and "" are falsy.
Truthy(o) == IsDefined(o) /\ o[1] # ""

\* The opaque nodeId the server gives the record with id i.
NodeIdOf(i) == "k" \o ToString(i)

\* One node of allCategories.nodes, as GET_ALL selects it (lines 5-15).
Node(i, d) == [nodeId |-> Some(NodeIdOf(i)), id |-> Some(i), description |-> Some(d)]

\* The nodes the server reports for GET_ALL: the live records, by id.
RECURSIVE NodesUpTo(_, _)
NodesUpTo(s, n) ==
    IF n = 0 THEN <<>>
    ELSE LET rest == NodesUpTo(s, n - 1)
         IN  IF IsDefined(s[n]) THEN Append(rest, Node(n, s[n][1])) ELSE rest

AllCategories(s) == NodesUpTo(s, Len(s))

\* The ids of the live records whose nodeId is k.
IdsOf(s, k) == {i \in 1..Len(s) : IsDefined(s[i]) /\ NodeIdOf(i) = k}

\* ----- the render function (lines 79-88 and 139-194)

\* JavaScript a || b on optional strings.
OrElse(a, b) == IF Truthy(a) THEN a ELSE b

\* entity?.nodeId and entity?.description
NodeIdIn(ent) == IF IsDefined(ent) THEN ent[1].nodeId ELSE undefined
DescriptionIn(ent) == IF IsDefined(ent) THEN ent[1].description ELSE undefined

\* Mutant of ErrorMessage: the four messages are tried in the reverse order.
ErrorMessageReversed(e, eA, eD, eU) == OrElse(eU, OrElse(eD, OrElse(eA, e)))

\* error?.message || errorAdding?.message || errorDeleting?.message ||
\* errorUpdating?.message (lines 81-85)
ErrorMessage(e, eA, eD, eU) == OrElse(e, OrElse(eA, OrElse(eD, eU)))

\* error || errorAdding || errorDeleting || errorUpdating (line 80)
AnyError(e, eA, eD, eU) ==
    IsDefined(e) \/ IsDefined(eA) \/ IsDefined(eD) \/ IsDefined(eU)

\* Mutant of EnableSave: the description is tested for being defined, not
\* for being non-empty.
EnableSaveIfDefined(ent) == IsDefined(DescriptionIn(ent))

\* enableSave={!!entity?.description} (line 147)
EnableSave(ent) == Truthy(DescriptionIn(ent))

\* value={entity?.description || ""} (line 216)
InputValue(ent) == OrElse(DescriptionIn(ent), Some(""))[1]

Blank(kind) ==
    [kind |-> kind, message |-> undefined, rows |-> <<>>, newButton |-> FALSE,
     modal |-> FALSE, enableSave |-> FALSE, value |-> ""]

\* Mutant of Render: the error guard comes before the loading guard.
RenderErrorFirst(l, e, eA, eD, eU, d, dm, ent) ==
    IF AnyError(e, eA, eD, eU)
    THEN [Blank("error") EXCEPT !.message = ErrorMessage(e, eA, eD, eU)]
    ELSE IF l THEN Blank("loading")
    ELSE IF ~IsDefined(d) THEN Blank("norecords")
    ELSE [kind |-> "table", message |-> undefined, rows |-> d[1],
          newButton |-> TRUE, modal |-> dm,
          enableSave |-> dm /\ EnableSave(ent),
          value |-> IF dm THEN InputValue(ent) ELSE ""]

\* Mutant of Render: the editor is rendered beside the error message too.
RenderEditorWithError(l, e, eA, eD, eU, d, dm, ent) ==
    IF l THEN Blank("loading")
    ELSE IF AnyError(e, eA, eD, eU)
    THEN [Blank("error") EXCEPT !.message = ErrorMessage(e, eA, eD, eU),
                                !.modal = dm,
                                !.enableSave = dm /\ EnableSave(ent),
                                !.value = IF dm THEN InputValue(ent) ELSE ""]
    ELSE IF ~IsDefined(d) THEN Blank("norecords")
    ELSE [kind |-> "table", message |-> undefined, rows |-> d[1],
          newButton |-> TRUE, modal |-> dm,
          enableSave |-> dm /\ EnableSave(ent),
          value |-> IF dm THEN InputValue(ent) ELSE ""]

\* What Categories returns for the given hook results and state.
Render(l, e, eA, eD, eU, d, dm, ent) ==
    IF l THEN Blank("loading")
    ELSE IF AnyError(e, eA, eD, eU)
    THEN [Blank("error") EXCEPT !.message = ErrorMessage(e, eA, eD, eU)]
    ELSE IF ~IsDefined(d) THEN Blank("norecords")
    ELSE [kind |-> "table", message |-> undefined, rows |-> d[1],
          newButton |-> TRUE, modal |-> dm,
          enableSave |-> dm /\ EnableSave(ent),
          value |-> IF dm THEN InputValue(ent) ELSE ""]

\* The render that follows a state change (a change of React state or of a
\* hook's result renders the component again).
Rendered ==
    view' = Render(loading', error', errorAdding', errorDeleting',
                   errorUpdating', data', displayModal', entity')

\* ----- the Apollo hooks (lines 66-76)

LoadFailedMessage == "load failed"
FailedMessage(op) == op \o " failed"

\* A GET_ALL request: sent, then answered with the nodes the server held
\* when it read them (result undefined: the request failed).
Fetch(initial) == [initial |-> initial, phase |-> "sent", result |-> undefined]

\* A mutation call, as the link sends it.
Write(op, k, d) ==
    [op |-> op, nodeId |-> k, description |-> d, phase |-> "sent", reloads |-> 0]

\* useMutation keeps the result of the latest call of its mutate function
\* only: an earlier call that settles later is ignored.
Latest(n) == \A m \in (n + 1)..Len(writes) : writes[m].op # writes[n].op

\* Mutant of Mutate: the refetch is issued together with the call, before
\* the call has settled.
MutateRefetchesAtOnce(op, k, d) ==
    /\ Len(writes) < MaxWrites
    /\ writes' = Append(writes, [Write(op, k, d) EXCEPT !.reloads = 1])
    /\ fetches' = Append(fetches, Fetch(FALSE))
    /\ errorAdding' = IF op = "create" THEN undefined ELSE errorAdding
    /\ errorDeleting' = IF op = "delete" THEN undefined ELSE errorDeleting
    /\ errorUpdating' = IF op = "update" THEN undefined ELSE errorUpdating
    /\ UNCHANGED <<loading, error, data, fetchFailed, server>>

\* Calling a mutate function: the call is sent and the hook's error is reset.
Mutate(op, k, d) ==
    /\ Len(writes) < MaxWrites
    /\ writes' = Append(writes, Write(op, k, d))
    /\ errorAdding' = IF op = "create" THEN undefined ELSE errorAdding
    /\ errorDeleting' = IF op = "delete" THEN undefined ELSE errorDeleting
    /\ errorUpdating' = IF op = "update" THEN undefined ELSE errorUpdating
    /\ UNCHANGED <<loading, error, data, fetches, fetchFailed, server>>

\* addEntity({ variables: { description } }) (lines 68-70, 102)
addEntity(d) == Mutate("create", undefined, d)

\* updateEntity({ variables: { nodeId, description } }) (lines 74-76, 95-100)
updateEntity(k, d) == Mutate("update", k, d)

\* deleteEntity({ variables: { nodeId } }) (lines 71-73, 130)
deleteEntity(k) == Mutate("delete", k, undefined)

\* ----- the event handlers

\* Mutant of NewClick: setEntity(undefined) is left out.
NewClickKeepsDraft ==
    /\ view.newButton
    /\ UNCHANGED entity
    /\ displayModal' = TRUE
    /\ opened' = [by |-> "new", row |-> undefined]
    /\ UNCHANGED <<hooks, remote>>
    /\ Rendered

\* New button onClick (lines 155-158)
NewClick ==
    /\ view.newButton
    /\ entity' = undefined
    /\ displayModal' = TRUE
    /\ opened' = [by |-> "new", row |-> undefined]
    /\ UNCHANGED <<hooks, remote>>
    /\ Rendered

\* Mutant of EditClick: setEntity(entity) is left out.
EditClickKeepsDraft(i) ==
    /\ i \in 1..Len(view.rows)
    /\ UNCHANGED entity
    /\ displayModal' = TRUE
    /\ opened' = [by |-> "edit", row |-> Some(view.rows[i])]
    /\ UNCHANGED <<hooks, remote>>
    /\ Rendered

\* Edit button onClick of row i (lines 121-124)
EditClick(i) ==
    /\ i \in 1..Len(view.rows)
    /\ entity' = Some(view.rows[i])
    /\ displayModal' = TRUE
    /\ opened' = [by |-> "edit", row |-> Some(view.rows[i])]
    /\ UNCHANGED <<hooks, remote>>
    /\ Rendered

\* Mutant of DeleteClick: the handler also closes the editor.
DeleteClickClosesEditor(i) ==
    /\ i \in 1..Len(view.rows)
    /\ deleteEntity(view.rows[i].nodeId)
    /\ displayModal' = FALSE
    /\ UNCHANGED <<entity, opened>>
    /\ Rendered

\* Delete button onClick of row i (line 130)
DeleteClick(i) ==
    /\ i \in 1..Len(view.rows)
    /\ deleteEntity(view.rows[i].nodeId)
    /\ UNCHANGED <<displayModal, entity, opened>>
    /\ Rendered

\* Mutant of WithDescription: the draft is not spread, { description: v }.
WithDescriptionOnly(ent, v) ==
    Some([nodeId |-> undefined, id |-> undefined, description |-> Some(v)])

\* Mutant of WithDescription: the nodeId is copied and the id is not,
\* { nodeId: entity?.nodeId, description: v }.
WithDescriptionAndNodeId(ent, v) ==
    Some([nodeId |-> NodeIdIn(ent), id |-> undefined, description |-> Some(v)])

\* { ...entity, description: v } (line 215)
WithDescription(ent, v) ==
    IF IsDefined(ent) THEN Some([ent[1] EXCEPT !.description = Some(v)])
    ELSE Some([nodeId |-> undefined, id |-> undefined, description |-> Some(v)])

\* Mutant of Change: the description is assigned to the draft in place, and
\* the draft opened by Edit is the row object of the List.
ChangeInPlace(v) ==
    /\ view.modal
    /\ v # view.value
    /\ entity' = WithDescription(entity, v)
    /\ data' = IF IsDefined(data) /\ IsDefined(NodeIdIn(entity))
               THEN Some([i \in 1..Len(data[1]) |->
                        IF data[1][i].nodeId = NodeIdIn(entity)
                        THEN [data[1][i] EXCEPT !.description = Some(v)]
                        ELSE data[1][i]])
               ELSE data
    /\ UNCHANGED <<displayModal, loading, error, errorAdding, errorDeleting,
                   errorUpdating, remote, opened>>
    /\ Rendered

\* input onChange with e.target.value = v (line 215); the event fires when
\* the text of the input changes.
Change(v) ==
    /\ view.modal
    /\ v # view.value
    /\ entity' = WithDescription(entity, v)
    /\ UNCHANGED <<displayModal, hooks, remote, opened>>
    /\ Rendered

\* ModalDialog offers Close whenever it is rendered, and Save only when
\* enableSave is true.
ModalDialogCanClose == view.modal
ModalDialogCanSave == view.modal /\ view.enableSave

\* onClose={() => setDisplayModal(false)} (line 145)
Close ==
    /\ ModalDialogCanClose
    /\ displayModal' = FALSE
    /\ UNCHANGED <<entity, hooks, remote, opened>>
    /\ Rendered

\* Mutant of handleSave: the nodeId is not looked at and every save creates.
handleSaveAlwaysCreates ==
    /\ displayModal' = FALSE
    /\ addEntity(DescriptionIn(entity))
    /\ UNCHANGED <<entity, opened>>
    /\ Rendered

\* Mutant of handleSave: setDisplayModal(false) is left out.
handleSaveKeepsOpen ==
    /\ UNCHANGED displayModal
    /\ IF Truthy(NodeIdIn(entity))
       THEN updateEntity(NodeIdIn(entity), DescriptionIn(entity))
       ELSE addEntity(DescriptionIn(entity))
    /\ UNCHANGED <<entity, opened>>
    /\ Rendered

\* handleSave (lines 90-104), without the guard of the Save button
handleSave ==
    /\ displayModal' = FALSE
    /\ IF Truthy(NodeIdIn(entity))
       THEN updateEntity(NodeIdIn(entity), DescriptionIn(entity))
       ELSE addEntity(DescriptionIn(entity))
    /\ UNCHANGED <<entity, opened>>
    /\ Rendered

\* onSave={handleSave} (line 146)
Save == ModalDialogCanSave /\ handleSave

\* ----- the server and the settling of requests

Remove(seq, j) == SubSeq(seq, 1, j - 1) \o SubSeq(seq, j + 1, Len(seq))

\* The table after the server has carried out write w; the write is carried
\* out only when CanApply(w) holds.
CanApply(w) ==
    CASE w.op = "create" -> IsDefined(w.description)
      [] w.op = "update" ->
            /\ IsDefined(w.nodeId) /\ IsDefined(w.description)
            /\ IdsOf(server, w.nodeId[1]) # {}
      [] w.op = "delete" -> IsDefined(w.nodeId) /\ IdsOf(server, w.nodeId[1]) # {}

Applied(w) ==
    CASE w.op = "create" -> Append(server, w.description)
      [] w.op = "update" ->
            [i \in 1..Len(server) |->
                IF i \in IdsOf(server, w.nodeId[1]) THEN w.description ELSE server[i]]
      [] w.op = "delete" ->
            [i \in 1..Len(server) |->
                IF i \in IdsOf(server, w.nodeId[1]) THEN undefined ELSE server[i]]

\* The server carries out write n and answers with success.
ServerApply(n) ==
    /\ n \in 1..Len(writes)
    /\ writes[n].phase = "sent"
    /\ CanApply(writes[n])
    /\ server' = Applied(writes[n])
    /\ writes' = [writes EXCEPT ![n].phase = "ok"]
    /\ UNCHANGED <<displayModal, entity, hooks, fetches, fetchFailed, view, opened>>

\* The hook errors after write n has settled with message m (undefined on
\* success): only the latest call of a mutate function is recorded.
SetMutationError(n, m) ==
    LET mine(op) == writes[n].op = op /\ Latest(n)
    IN  /\ errorAdding' = IF mine("create") THEN m ELSE errorAdding
        /\ errorDeleting' = IF mine("delete") THEN m ELSE errorDeleting
        /\ errorUpdating' = IF mine("update") THEN m ELSE errorUpdating

\* refetchQueries: [{ query: GET_ALL }] after a mutation that succeeded: a
\* new GET_ALL request is sent.
Refetch == fetches' = Append(fetches, Fetch(FALSE))

\* The same with query deduplication: the refetch shares the response of
\* an identical GET_ALL request that is still in flight.
RefetchDeduplicated == fetches # <<>> /\ fetches' = fetches

\* The successful response of write n arrives.
MutationCompleted(n) ==
    /\ n \in 1..Len(writes)
    /\ writes[n].phase = "ok"
    /\ writes' = [writes EXCEPT ![n].phase = "completed",
                                ![n].reloads = writes[n].reloads + 1]
    /\ SetMutationError(n, undefined)
    /\ Refetch \/ RefetchDeduplicated
    /\ UNCHANGED <<displayModal, entity, loading, error, data, fetchFailed,
                   server, opened>>
    /\ Rendered

\* Write n fails (the request is lost or the server refuses it, leaving
\* the table as it is) and the failure arrives: the mutation's error is set
\* and no query is refetched.
MutationFailed(n) ==
    /\ n \in 1..Len(writes)
    /\ writes[n].phase = "sent"
    /\ writes' = [writes EXCEPT ![n].phase = "failed"]
    /\ SetMutationError(n, Some(FailedMessage(writes[n].op)))
    /\ UNCHANGED <<displayModal, entity, loading, error, data, fetches,
                   fetchFailed, server, opened>>
    /\ Rendered

\* The server answers GET_ALL request j with the records it holds now.
ServerRead(j) ==
    /\ j \in 1..Len(fetches)
    /\ fetches[j].phase = "sent"
    /\ fetches' = [fetches EXCEPT ![j].phase = "answered",
                                  ![j].result = Some(AllCategories(server))]
    /\ UNCHANGED <<displayModal, entity, hooks, writes, fetchFailed, server, view,
                   opened>>

\* The response of GET_ALL request j arrives: the result of useQuery
\* (line 66) takes its nodes.
QueryCompleted(j) ==
    /\ j \in 1..Len(fetches)
    /\ fetches[j].phase = "answered"
    /\ fetches' = Remove(fetches, j)
    /\ loading' = IF fetches[j].initial THEN FALSE ELSE loading
    /\ data' = fetches[j].result
    /\ UNCHANGED <<displayModal, entity, error, errorAdding, errorDeleting,
                   errorUpdating, writes, fetchFailed, server, opened>>
    /\ Rendered

\* GET_ALL request j fails (the request is lost or the server refuses it).
\* A failure of the first Load becomes the query's error; a failure of a
\* refetch issued by refetchQueries is dropped and leaves the query's
\* result as it was.
QueryFailed(j) ==
    /\ j \in 1..Len(fetches)
    /\ fetches[j].phase = "sent"
    /\ fetches' = Remove(fetches, j)
    /\ loading' = IF fetches[j].initial THEN FALSE ELSE loading
    /\ error' = IF fetches[j].initial THEN Some(LoadFailedMessage) ELSE error
    /\ fetchFailed' = (fetchFailed \/ ~fetches[j].initial)
    /\ UNCHANGED <<displayModal, entity, data, errorAdding, errorDeleting,
                   errorUpdating, writes, server, opened>>
    /\ Rendered

\* ----- the component mounted against a server

Init ==
    /\ displayModal = FALSE
    /\ entity = undefined
    /\ loading = TRUE
    /\ error = undefined
    /\ data = undefined
    /\ errorAdding = undefined
    /\ errorDeleting = undefined
    /\ errorUpdating = undefined
    /\ writes = <<>>
    /\ fetches = <<Fetch(TRUE)>>
    /\ fetchFailed = FALSE
    /\ server \in InitialTables
    /\ view = Render(loading, error, errorAdding, errorDeleting, errorUpdating,
                     data, displayModal, entity)
    /\ opened = [by |-> "none", row |-> undefined]

Edit == \E i \in 1..Len(view.rows) : EditClick(i)
Delete == \E i \in 1..Len(view.rows) : DeleteClick(i)
Type == \E v \in Values : Change(v)
ServerWrites == \E n \in 1..Len(writes) : ServerApply(n)
MutationSucceeds == \E n \in 1..Len(writes) : MutationCompleted(n)
MutationFails == \E n \in 1..Len(writes) : MutationFailed(n)
ServerReads == \E j \in 1..Len(fetches) : ServerRead(j)
QuerySucceeds == \E j \in 1..Len(fetches) : QueryCompleted(j)
QueryFails == \E j \in 1..Len(fetches) : QueryFailed(j)

Next ==
    \/ NewClick
    \/ Edit
    \/ Delete
    \/ Type
    \/ Close
    \/ Save
    \/ ServerWrites
    \/ MutationSucceeds
    \/ MutationFails
    \/ ServerReads
    \/ QuerySucceeds
    \/ QueryFails

Spec == Init /\ [][Next]_vars

\* ----- the render function on its own: the component, in any state, first
\* rendered while the query loads and then rendered again with any results
\* of its four hooks

\* The message of an Apollo error is a non-empty text.
QueryErrors == {undefined, Some(LoadFailedMessage)}
MutationErrors(op) == {undefined, Some(FailedMessage(op))}
QueryData == {undefined, Some(<<>>), Some(<<Node(1, "Fruit")>>)}
Entities == {undefined, Some(Node(1, "Fruit")), WithDescription(undefined, "Veg")}

InitRender ==
    /\ displayModal \in BOOLEAN
    /\ entity \in Entities
    /\ loading = TRUE
    /\ error = undefined
    /\ data = undefined
    /\ errorAdding = undefined
    /\ errorDeleting = undefined
    /\ errorUpdating = undefined
    /\ writes = <<>>
    /\ fetches = <<>>
    /\ fetchFailed = FALSE
    /\ server = <<>>
    /\ view = Render(loading, error, errorAdding, errorDeleting, errorUpdating,
                     data, displayModal, entity)
    /\ opened = [by |-> "none", row |-> undefined]

\* The hooks report new results and the component renders again.
Rerender ==
    /\ loading' \in BOOLEAN
    /\ error' \in QueryErrors
    /\ data' \in QueryData
    /\ errorAdding' \in MutationErrors("create")
    /\ errorDeleting' \in MutationErrors("delete")
    /\ errorUpdating' \in MutationErrors("update")
    /\ UNCHANGED <<displayModal, entity, remote, opened>>
    /\ Rendered

NextRender == Rerender

SpecRender == InitRender /\ [][NextRender]_vars

\* ----- C1..C10

\* C1: every write call that has settled, with success or with failure, has
\* had exactly one Load issued for it.
C1_EverySettledWriteReloadsOnce ==
    \A n \in 1..Len(writes) :
        writes[n].phase \in {"completed", "failed"} => writes[n].reloads = 1

\* C2: once at least one write has been issued, every write has settled
\* with success and every reload has settled (none of them failed), the
\* displayed List is the server's current record set.
C2_SettledListEqualsServer ==
    ( /\ writes # <<>>
      /\ \A n \in 1..Len(writes) : writes[n].phase = "completed"
      /\ fetches = <<>>
      /\ ~fetchFailed
      /\ ~IsDefined(error) )
    => data = Some(AllCategories(server))

\* C3: a save() issues exactly one write call, and nothing else changes in
\* the calls issued before: Update(draft.recordKey, draft.description) if
\* and only if the draft's recordKey is defined when save() is called,
\* Create(draft.description) otherwise.
C3_SaveDispatch ==
    [][Save =>
        /\ Len(writes') = Len(writes) + 1
        /\ SubSeq(writes', 1, Len(writes)) = writes
        /\ LET w == writes'[Len(writes')]
           IN  /\ w.op \in {"create", "update"}
               /\ w.op = "update" <=> IsDefined(NodeIdIn(entity))
               /\ w.nodeId = NodeIdIn(entity)
               /\ w.description = DescriptionIn(entity)]_vars

\* C3 witness: a save() has issued an Update and a save() has issued a Create.
C3_Witness ==
    /\ \E n \in 1..Len(writes) : writes[n].op = "update"
    /\ \E n \in 1..Len(writes) : writes[n].op = "create"

\* C4: no Create or Update is ever issued with an empty or undefined
\* description.
C4_NoEmptyDescriptionSaved ==
    \A n \in 1..Len(writes) :
        writes[n].op \in {"create", "update"} =>
            IsDefined(writes[n].description) /\ writes[n].description[1] # ""

\* C4 witness: the editor is shown on an existing record whose description
\* has been edited down to the empty string, and Save is not offered.
C4_Witness ==
    /\ view.modal
    /\ IsDefined(NodeIdIn(entity))
    /\ DescriptionIn(entity) = Some("")
    /\ ~ModalDialogCanSave

\* The errors of the four operations in the order Load, Create, Delete, Update.
ErrorsInOrder == <<error, errorAdding, errorDeleting, errorUpdating>>

\* C5: when Load is not pending and at least one operation has an error,
\* the view is the error message of the first failed operation in the order
\* Load, Create, Delete, Update, and nothing else: no table, no controls.
C5_ErrorPriority ==
    (~loading /\ \E i \in 1..4 : IsDefined(ErrorsInOrder[i])) =>
        LET first == CHOOSE i \in 1..4 :
                        /\ IsDefined(ErrorsInOrder[i])
                        /\ \A j \in 1..(i - 1) : ~IsDefined(ErrorsInOrder[j])
        IN  /\ view.kind = "error"
            /\ view.message = ErrorsInOrder[first]
            /\ view.rows = <<>>
            /\ ~view.newButton
            /\ ~view.modal

\* C5 witness: all four operations have failed and Load's message is shown.
C5_Witness ==
    /\ ~loading
    /\ \A i \in 1..4 : IsDefined(ErrorsInOrder[i])
    /\ view.message = Some(LoadFailedMessage)

\* C6: when Load has completed with no error and zero records, and no write
\* has an error, the view is the "no records" indicator; the table is
\* rendered only when Load returned at least one record.
C6_NoRecordsIndicator ==
    /\ (~loading /\ ~AnyError(error, errorAdding, errorDeleting, errorUpdating)
            /\ data = Some(<<>>))
        => view.kind = "norecords"
    /\ view.kind = "table" => (IsDefined(data) /\ Len(data[1]) >= 1)

\* C7: save() closes the editor in the step in which it issues the write,
\* which is then still pending; editorOpen goes from false to true only by
\* open() or openFor(r), and from true to false only by save() or close().
C7_SaveClosesAtOnce ==
    [][ /\ Save =>
            /\ displayModal' = FALSE
            /\ Len(writes') = Len(writes) + 1
            /\ writes'[Len(writes')].phase = "sent"
        /\ (~displayModal /\ displayModal') => (NewClick \/ Edit)
        /\ (displayModal /\ ~displayModal') => (Save \/ Close) ]_vars

\* C7 witness: the editor is closed while a Create or an Update issued by
\* save() has not settled yet.
C7_Witness ==
    /\ ~displayModal
    /\ \E n \in 1..Len(writes) :
        writes[n].op \in {"create", "update"} /\ writes[n].phase = "sent"

\* C8: deleteRow on row i of the List issues exactly one Delete call, with
\* the recordKey of that row, and leaves editorOpen and the draft unchanged.
C8_DeleteRowFrame ==
    [][\A i \in 1..Len(view.rows) :
        DeleteClick(i) =>
            /\ IsDefined(data)
            /\ writes' = Append(writes,
                    [op |-> "delete", nodeId |-> data[1][i].nodeId,
                     description |-> undefined, phase |-> "sent", reloads |-> 0])
            /\ displayModal' = displayModal
            /\ entity' = entity]_vars

\* C8 witness: a Delete has been issued while the editor is open on a draft.
C8_Witness ==
    /\ displayModal
    /\ IsDefined(entity)
    /\ \E n \in 1..Len(writes) : writes[n].op = "delete" /\ writes[n].phase = "sent"

C10_ReloadSupersedesWriteError ==
    [][ ( /\ view.kind = "error"
          /\ ~IsDefined(error)
          /\ \E j \in 1..Len(fetches) : QueryCompleted(j) )
        => view'.kind = "table" ]_vars

\* ----- C11..C18

\* C11, as claimed: whenever the editor is closed the draft is none.
C11_ClosedMeansNoDraft == ~displayModal => entity = undefined

\* C11, amended: close() and save() leave the draft as it is, so a closed
\* editor may still hold the draft of the last cycle; whenever the editor
\* goes from closed to open the draft is replaced, by none or by a row of
\* the List, so an editor never opens on the draft of an earlier cycle.
C11_DraftReplacedOnOpen ==
    [][ /\ (displayModal /\ ~displayModal') => entity' = entity
        /\ (~displayModal /\ displayModal') =>
            \/ entity' = undefined
            \/ /\ IsDefined(data)
               /\ \E i \in 1..Len(data[1]) : entity' = Some(data[1][i]) ]_vars

\* C11 witness: the editor has been closed by save() and the saved draft is
\* still there.
C11_Witness ==
    /\ ~displayModal
    /\ IsDefined(entity)
    /\ \E n \in 1..Len(writes) :
        /\ writes[n].op \in {"create", "update"}
        /\ writes[n].description = DescriptionIn(entity)

\* C12: open() sets the draft to none whatever it was, and a save() in a
\* cycle opened by open() issues Create with the text of the input and no
\* recordKey.
C12_NewAlwaysCreates ==
    [][ /\ NewClick => entity' = undefined
        /\ (Save /\ opened.by = "new") =>
            /\ Len(writes') = Len(writes) + 1
            /\ writes'[Len(writes')] =
                    [op |-> "create", nodeId |-> undefined,
                     description |-> Some(view.value), phase |-> "sent",
                     reloads |-> 0] ]_vars

\* C12 witness: after a cycle that edited a record and saved it, a cycle
\* opened by open() has issued a Create.
C12_Witness ==
    /\ opened.by = "new"
    /\ Len(writes) = 2
    /\ writes[1].op = "update"
    /\ writes[2].op = "create"

\* C13: in a cycle opened by openFor(r) the draft keeps r's id and
\* recordKey through every keystroke, and a save() in it issues Update with
\* r's recordKey and the text of the input.
C13_EditKeepsIdentity ==
    [][ /\ opened'.by = "edit" =>
            /\ IsDefined(entity')
            /\ entity'[1].nodeId = opened'.row[1].nodeId
            /\ entity'[1].id = opened'.row[1].id
        /\ (Save /\ opened.by = "edit") =>
            /\ Len(writes') = Len(writes) + 1
            /\ writes'[Len(writes')] =
                    [op |-> "update", nodeId |-> opened.row[1].nodeId,
                     description |-> Some(view.value), phase |-> "sent",
                     reloads |-> 0] ]_vars

\* C13 witness: a row has been opened, its text changed, and saved: the
\* Update carries the row's recordKey and the new text.
C13_Witness ==
    /\ opened.by = "edit"
    /\ \E n \in 1..Len(writes) :
        /\ writes[n].op = "update"
        /\ writes[n].nodeId = opened.row[1].nodeId
        /\ writes[n].description # opened.row[1].description

\* C14: the List changes only in a step that completes a Load, and then
\* it becomes that Load's result; open(), openFor(r), keystrokes, close(),
\* save() and deleteRow() leave it unchanged.
C14_ListChangesOnlyByLoad ==
    [][ /\ data' # data =>
            \E j \in 1..Len(fetches) :
                /\ fetches[j].phase = "answered"
                /\ fetches' = Remove(fetches, j)
                /\ data' = fetches[j].result
        /\ (NewClick \/ Edit \/ Type \/ Close \/ Save \/ Delete) => data' = data ]_vars

\* C14 witness: after a reload has replaced the List, the draft opened on
\* one of its rows has a text that differs from the row's.
C14_Witness ==
    /\ view.modal
    /\ opened.by = "edit"
    /\ \E n \in 1..Len(writes) : writes[n].phase = "completed"
    /\ fetches = <<>>
    /\ \E i \in 1..Len(view.rows) :
        /\ view.rows[i].nodeId = NodeIdIn(entity)
        /\ view.rows[i].description # DescriptionIn(entity)

\* The reloads in flight: the GET_ALL requests issued by refetchQueries.
ReloadsInFlight == Len(SelectSeq(fetches, LAMBDA f : ~f.initial))

\* The writes that have settled with success.
WritesCompleted == Len(SelectSeq(writes, LAMBDA w : w.phase = "completed"))

\* C15: a reload has been issued for a write only if that write has
\* settled, and there are never more reloads in flight than writes that
\* have settled: no reload is issued ahead of the write that causes it.
C15_ReloadAfterSettle ==
    /\ \A n \in 1..Len(writes) :
        writes[n].reloads >= 1 => writes[n].phase = "completed"
    /\ ReloadsInFlight <= WritesCompleted

\* C15 witness: the reload of a settled write is in flight while another
\* write is still pending and has no reload.
C15_Witness ==
    /\ ReloadsInFlight = 1
    /\ \E n, m \in 1..Len(writes) :
        /\ writes[n].phase = "completed" /\ writes[n].reloads = 1
        /\ writes[m].phase = "sent" /\ writes[m].reloads = 0

\* C16: a draft that is not none has id and recordKey both absent or both
\* present.
C16_DraftIdentityPaired ==
    IsDefined(entity) => (IsDefined(entity[1].id) <=> IsDefined(entity[1].nodeId))

\* C16 witness: after a draft with both (an edited row) has been saved, the
\* editor holds a draft with neither (a new record being typed).
C16_Witness ==
    /\ displayModal
    /\ \E n \in 1..Len(writes) : writes[n].op = "update"
    /\ IsDefined(entity)
    /\ ~IsDefined(entity[1].id)
    /\ ~IsDefined(entity[1].nodeId)
    /\ entity[1].description = Some("Veg")

\* C17: every step that issues a write call starts in a state whose view
\* is the table; in the loading, error and "no records" views neither the
\* controls nor the editor are there, even when editorOpen is true.
C17_WritesFromTableOnly ==
    [][Len(writes') > Len(writes) => view.kind = "table"]_vars

\* C17 witness: an error is displayed while editorOpen is true, the draft
\* could be saved and another write could still be issued.
C17_Witness ==
    /\ view.kind = "error"
    /\ displayModal
    /\ EnableSave(entity)
    /\ ~view.modal
    /\ Len(writes) < MaxWrites

\* C18: whenever save() issues Update, the recordKey it sends is the
\* recordKey of a record of the List displayed at that moment.
C18_UpdateTargetsListedRecord ==
    [][(Save /\ IsDefined(NodeIdIn(entity))) =>
        /\ IsDefined(data)
        /\ \E i \in 1..Len(data[1]) : data[1][i].nodeId = NodeIdIn(entity)]_vars

====
